---- MODULE Spec2Model ----
(***************************************************************************)
(* Model of annet.mesh.executor.MeshExecutor: an execute_for(device) call  *)
(* as a state machine.  The registry and the storage are the collaborators *)
(* handed to the constructor.  In Spec and SpecOrder a lookup's answer is  *)
(* drawn when the lookup is made; in SpecTwice and SpecPair the registry   *)
(* is fixed in the initial state, the call is repeated, and in SpecPair a  *)
(* second call for a neighbour runs beside it.  The connections of the     *)
(* storage are fixed in the initial state.                                 *)
(***************************************************************************)
EXTENDS Integers, Sequences, FiniteSets, TLC

VARIABLES
    pc,          \* position inside execute_for
    err,         \* the exception that left execute_for ("" while none)
    links,       \* storage: number of interface pairs device <-> neighbour
    all_fqdns,   \* execute_for: all_fqdns
    rules,       \* the rule list the running _execute_* loop iterates
    ri,          \* index of the next rule of that loop
    peers_dict,  \* neighbor_peers / connected_peers / (unused in globals)
    pairs,       \* list returned by _execute_direct
    pi,          \* index of the next pair of the loop of lines 150-152
    result,      \* execute_for: result
    global_opts, \* _execute_globals: global_opts
    ret,         \* the MeshExecutionResult returned (<<>> while none)
    trace,       \* calls made on the collaborators and handlers, in order
    current,     \* the device the running execute_for was called for
    other,       \* the locals of a second, suspended execute_for (<<>> if none)
    ifaces,      \* per device, the interfaces provisioning has created
    registry,    \* per device, the rule lists of a registry fixed in advance
    call,        \* the handler call of the running loop's last iteration
    prev         \* outcomes of the calls of an earlier pass (<<>> if none)

vars == <<pc, err, links, all_fqdns, rules, ri, peers_dict, pairs, pi,
          result, global_opts, ret, trace, current, other, ifaces, registry,
          call, prev>>

-----------------------------------------------------------------------------
(* Bounds of the model *)

MaxLinks == 2
MaxDirectRules == 2
MaxIndirectRules == 3
MaxPairRules == 2

-----------------------------------------------------------------------------
(* Devices and storage *)

None == 0 - 1

\* the device argument of execute_for
Device == current

Inventory == <<"A", "B", "C", "D">>

\* device.neighbours: A is attached to B and C
NeighboursOf(d) ==
    IF d = "A" THEN {"B", "C"} ELSE IF d \in {"B", "C"} THEN {"A"} ELSE {}

Neighbours == NeighboursOf(Device)

\* the end of a link that is not A: links counts the pairs between A and it
LinkOf(n) == IF Device = "A" THEN n ELSE Device

LocalPort(n, k) == <<"eth", Device, n, k>>
RemotePort(n, k) == <<"eth", n, Device, k>>

\* Storage.search_connections(device, neighbor): ordered (local, remote) pairs
SearchConnections(n) ==
    IF n \in Neighbours
    THEN [k \in 1..links[LinkOf(n)] |-> [local |-> LocalPort(n, k), remote |-> RemotePort(n, k)]]
    ELSE << >>

\* Storage.make_devices(name)[0]
MakeDevices(name) == name

\* Device.make_lag returns the identifier of the new aggregated link
LagName(lagg) == <<"lag", lagg>>

-----------------------------------------------------------------------------
(* Fragments and merge *)

Fields == {"lag", "lag_links_min", "svi", "subif"}

F(lag, lag_links_min, svi, subif) ==
    [lag |-> lag, lag_links_min |-> lag_links_min, svi |-> svi, subif |-> subif]

\* PeerDTO()
PeerDTO == F(None, None, None, None)

MergeVal(x, y) == IF y = None THEN x ELSE y

MergeConflict(a, b) ==
    \E f \in Fields : a[f] # None /\ b[f] # None /\ a[f] # b[f]

\* merge(a, b) on two option fragments
MergeFrag(a, b) == [f \in Fields |-> MergeVal(a[f], b[f])]

\* merge(PeerDTO(), peer, session): left fold in call order
Merge3(base, peer, session) == MergeFrag(MergeFrag(base, peer), session)
Merge3Conflict(base, peer, session) ==
    MergeConflict(base, peer) \/ MergeConflict(MergeFrag(base, peer), session)

\* Pair(local=..., connected=..., device=...)
Pair(local, connected, device) ==
    [local |-> local, connected |-> connected, device |-> device]

\* merge(old, new) on Pair: local/connected Merge(), device UseLast()
MergePair(old, new) ==
    [local |-> MergeFrag(old.local, new.local),
     connected |-> MergeFrag(old.connected, new.connected),
     device |-> new.device]
MergePairConflict(old, new) ==
    MergeConflict(old.local, new.local) \/ MergeConflict(old.connected, new.connected)

-----------------------------------------------------------------------------
(* dict[str, Pair] with insertion order *)

DictHas(d, k) == \E i \in 1..Len(d) : d[i].key = k
DictGet(d, k) == d[CHOOSE i \in 1..Len(d) : d[i].key = k].val
DictPutMoveToEnd(d, k, v) ==
    Append(SelectSeq(d, LAMBDA e : e.key # k), [key |-> k, val |-> v])
DictPutAppend(d, k, v) == Append(d, [key |-> k, val |-> v])
DictPut(d, k, v) ==
    IF DictHas(d, k)
    THEN [i \in 1..Len(d) |-> IF d[i].key = k THEN [key |-> k, val |-> v] ELSE d[i]]
    ELSE Append(d, [key |-> k, val |-> v])
DictValues(d) == [i \in 1..Len(d) |-> d[i].val]

-----------------------------------------------------------------------------
(* Rules and handlers *)

\* A direct or indirect rule as the registry returns it.  hl, hr and hs are
\* what rule.handler writes to its first argument, its second argument and
\* the session.
NeighborName(rule) == IF rule.direct_order THEN rule.name_right ELSE rule.name_left

\* DirectPeer(matched, device, ports) / IndirectPeer(matched, device)
PeerContext(matched, device, ports) ==
    [matched |-> matched, device |-> device, ports |-> ports, opts |-> PeerDTO]

\* rule.handler(left, right, session)
Handler(rule, left, right, session) ==
    [left |-> [left EXCEPT !.opts = MergeFrag(@, rule.hl)],
     right |-> [right EXCEPT !.opts = MergeFrag(@, rule.hr)],
     session |-> MergeFrag(session, rule.hs)]

\* Session()
Session == PeerDTO

\* ports appended to the two contexts from search_connections
LocalNames(interfaces) == [k \in 1..Len(interfaces) |-> interfaces[k].local]
RemoteNames(interfaces) == [k \in 1..Len(interfaces) |-> interfaces[k].remote]

\* One iteration of the loop of _execute_direct up to the Pair it builds:
\* the contexts, the handler call in the order direct_order gives, the two
\* materialising merges.
DirectPairOfIgnoringOrder(rule) ==
    LET neighbor_device == NeighborName(rule)
        interfaces == SearchConnections(neighbor_device)
        peer_device == PeerContext(IF rule.direct_order THEN rule.matched_left
                                   ELSE rule.matched_right,
                                   Device, LocalNames(interfaces))
        peer_neighbor == PeerContext(IF rule.direct_order THEN rule.matched_right
                                     ELSE rule.matched_left,
                                     neighbor_device, RemoteNames(interfaces))
        h == Handler(rule, peer_device, peer_neighbor, Session)
        dev_ctx == IF rule.direct_order THEN h.left ELSE h.right
        nbr_ctx == IF rule.direct_order THEN h.right ELSE h.left
    IN  [pair |-> Pair(Merge3(PeerDTO, dev_ctx.opts, h.session),
                       Merge3(PeerDTO, nbr_ctx.opts, h.session),
                       neighbor_device),
         conflict |-> Merge3Conflict(PeerDTO, nbr_ctx.opts, h.session)
                      \/ Merge3Conflict(PeerDTO, dev_ctx.opts, h.session),
         left |-> h.left, right |-> h.right, session |-> h.session]

DirectPairOfPortsByPosition(rule) ==
    LET neighbor_device == NeighborName(rule)
        interfaces == SearchConnections(neighbor_device)
        peer_device == PeerContext(IF rule.direct_order THEN rule.matched_left
                                   ELSE rule.matched_right,
                                   Device, IF rule.direct_order THEN LocalNames(interfaces)
                                           ELSE RemoteNames(interfaces))
        peer_neighbor == PeerContext(IF rule.direct_order THEN rule.matched_right
                                     ELSE rule.matched_left,
                                     neighbor_device,
                                     IF rule.direct_order THEN RemoteNames(interfaces)
                                     ELSE LocalNames(interfaces))
        h == IF rule.direct_order
             THEN Handler(rule, peer_device, peer_neighbor, Session)
             ELSE Handler(rule, peer_neighbor, peer_device, Session)
        dev_ctx == IF rule.direct_order THEN h.left ELSE h.right
        nbr_ctx == IF rule.direct_order THEN h.right ELSE h.left
    IN  [pair |-> Pair(Merge3(PeerDTO, dev_ctx.opts, h.session),
                       Merge3(PeerDTO, nbr_ctx.opts, h.session),
                       neighbor_device),
         conflict |-> Merge3Conflict(PeerDTO, nbr_ctx.opts, h.session)
                      \/ Merge3Conflict(PeerDTO, dev_ctx.opts, h.session),
         left |-> h.left, right |-> h.right, session |-> h.session]

DirectPairOf(rule) ==
    LET neighbor_device == NeighborName(rule)
        interfaces == SearchConnections(neighbor_device)
        peer_device == PeerContext(IF rule.direct_order THEN rule.matched_left
                                   ELSE rule.matched_right,
                                   Device, LocalNames(interfaces))
        peer_neighbor == PeerContext(IF rule.direct_order THEN rule.matched_right
                                     ELSE rule.matched_left,
                                     neighbor_device, RemoteNames(interfaces))
        h == IF rule.direct_order
             THEN Handler(rule, peer_device, peer_neighbor, Session)
             ELSE Handler(rule, peer_neighbor, peer_device, Session)
        dev_ctx == IF rule.direct_order THEN h.left ELSE h.right
        nbr_ctx == IF rule.direct_order THEN h.right ELSE h.left
    IN  [pair |-> Pair(Merge3(PeerDTO, dev_ctx.opts, h.session),
                       Merge3(PeerDTO, nbr_ctx.opts, h.session),
                       neighbor_device),
         conflict |-> Merge3Conflict(PeerDTO, nbr_ctx.opts, h.session)
                      \/ Merge3Conflict(PeerDTO, dev_ctx.opts, h.session),
         left |-> h.left, right |-> h.right, session |-> h.session]

\* The same for _execute_indirect: the remote device comes from make_devices
IndirectPairOf(rule) ==
    LET connected_device == MakeDevices(NeighborName(rule))
        peer_device == PeerContext(IF rule.direct_order THEN rule.matched_left
                                   ELSE rule.matched_right, Device, << >>)
        peer_connected == PeerContext(IF rule.direct_order THEN rule.matched_right
                                      ELSE rule.matched_left, connected_device, << >>)
        h == IF rule.direct_order
             THEN Handler(rule, peer_device, peer_connected, Session)
             ELSE Handler(rule, peer_connected, peer_device, Session)
        dev_ctx == IF rule.direct_order THEN h.left ELSE h.right
        con_ctx == IF rule.direct_order THEN h.right ELSE h.left
    IN  [pair |-> Pair(Merge3(PeerDTO, dev_ctx.opts, h.session),
                       Merge3(PeerDTO, con_ctx.opts, h.session),
                       connected_device),
         conflict |-> Merge3Conflict(PeerDTO, con_ctx.opts, h.session)
                      \/ Merge3Conflict(PeerDTO, dev_ctx.opts, h.session),
         left |-> h.left, right |-> h.right, session |-> h.session]

\* if fqdn in dict: pair = merge(dict[fqdn], pair); dict[fqdn] = pair
StorePairReplace(d, key, pair) == DictPut(d, key, pair)
StorePair(d, key, pair) ==
    DictPut(d, key, IF DictHas(d, key) THEN MergePair(DictGet(d, key), pair) ELSE pair)
StorePairConflict(d, key, pair) ==
    DictHas(d, key) /\ MergePairConflict(DictGet(d, key), pair)

\* to_bgp_peer(pair.local, pair.connected, pair.device)
ToBgpPeer(pair) ==
    [remote |-> pair.device, options |-> pair.local, remote_options |-> pair.connected]

\* GlobalOptionsDTO() and merge on it
GlobalOptionsDTO == [opt |-> None]
\* MeshGlobalOptions(matched, device): a context with nothing set yet
MeshGlobalOptions(matched, device) == [matched |-> matched, device |-> device, opt |-> None]
\* rule.handler(rule_global_opts)
GlobalHandler(rule, ctx) == [ctx EXCEPT !.opt = MergeVal(@, rule.hg)]
\* merge(global_opts, rule_global_opts): a GlobalOptionsDTO
MergeGlobal(a, b) == [opt |-> MergeVal(a.opt, b.opt)]
MergeGlobalConflict(a, b) == a.opt # None /\ b.opt # None /\ a.opt # b.opt

\* to_bgp_global_options(global_options)
ToBgpGlobal(g) == [global_opt |-> g.opt]

-----------------------------------------------------------------------------
(* Calls recorded in the trace *)

Ev(op, dev, nbr, target, id, ports, min) ==
    [op |-> op, dev |-> dev, nbr |-> nbr, target |-> target, id |-> id,
     ports |-> ports, min |-> min]
Step(op, dev, nbr) == Ev(op, dev, nbr, << >>, None, << >>, None)

\* A call of a direct or indirect rule's handler: the rule, the arguments as
\* the handler left them, and the Pair built from them
HandlerCall(op, rule, o) ==
    <<[op |-> op, rule |-> rule, left |-> o.left, right |-> o.right,
       session |-> o.session, pair |-> o.pair]>>

ProvisioningOps == {"make_lag", "add_subif", "add_svi"}
IndirectOps == {"lookup_indirect", "make_devices", "indirect_handler"}
GlobalOps == {"lookup_global", "global_handler"}

-----------------------------------------------------------------------------
(* _process_neighbor *)

\* The validations of _process_neighbor, in the order of the code: the
\* error raised, "" if none.
ValidateNoSubifSvi(device, neighbor, local) ==
    LET port_pairs == SearchConnections(neighbor)
    IN  IF local.lag # None /\ local.svi # None THEN "LagSvi"
        ELSE IF Len(port_pairs) > 1 /\ local.lag = None /\ local.svi = None
        THEN "MultiLink"
        ELSE ""

ValidateNoLagSvi(device, neighbor, local) ==
    LET port_pairs == SearchConnections(neighbor)
    IN  IF local.svi # None /\ local.subif # None THEN "SubifSvi"
        ELSE IF Len(port_pairs) > 1 /\ local.lag = None /\ local.svi = None
        THEN "MultiLink"
        ELSE ""

ValidateSubifDisambiguates(device, neighbor, local) ==
    LET port_pairs == SearchConnections(neighbor)
    IN  IF local.lag # None /\ local.svi # None THEN "LagSvi"
        ELSE IF local.svi # None /\ local.subif # None THEN "SubifSvi"
        ELSE IF Len(port_pairs) > 1 /\ local.lag = None /\ local.svi = None
                /\ local.subif = None
        THEN "MultiLink"
        ELSE ""

Validate(device, neighbor, local) ==
    LET lag == local.lag
        svi == local.svi
        subif == local.subif
        port_pairs == SearchConnections(neighbor)
    IN  IF lag # None /\ svi # None THEN "LagSvi"
        ELSE IF svi # None /\ subif # None THEN "SubifSvi"
        ELSE IF Len(port_pairs) > 1 /\ lag = None /\ svi = None THEN "MultiLink"
        ELSE ""

\* The provisioning branches of _process_neighbor: the calls made on the
\* device, in order, and the error of indexing an empty connection list.
ProvisionRemotePort(device, neighbor, local) ==
    LET port_pairs == SearchConnections(neighbor)
        lag_name == LagName(local.lag)
    IN  IF local.lag # None
        THEN [err |-> "",
              calls |-> <<Ev("make_lag", device, neighbor, lag_name, local.lag,
                             LocalNames(port_pairs), local.lag_links_min)>>
                        \o (IF local.subif # None
                            THEN <<Ev("add_subif", device, neighbor, lag_name,
                                      local.subif, << >>, None)>>
                            ELSE << >>)]
        ELSE IF local.subif # None
        THEN IF Len(port_pairs) = 0
             THEN [err |-> "IndexError", calls |-> << >>]
             ELSE [err |-> "",
                   calls |-> <<Ev("add_subif", device, neighbor, port_pairs[1].remote,
                                  local.subif, << >>, None)>>]
        ELSE IF local.svi # None
        THEN [err |-> "", calls |-> <<Ev("add_svi", device, neighbor, << >>, local.svi,
                                         << >>, None)>>]
        ELSE [err |-> "", calls |-> << >>]

ProvisionLagFirstPort(device, neighbor, local) ==
    LET port_pairs == SearchConnections(neighbor)
        lag_name == LagName(local.lag)
    IN  IF local.lag # None
        THEN [err |-> "",
              calls |-> <<Ev("make_lag", device, neighbor, lag_name, local.lag,
                             [k \in 1..(IF Len(port_pairs) = 0 THEN 0 ELSE 1) |->
                                 port_pairs[k].local], local.lag_links_min)>>
                        \o (IF local.subif # None
                            THEN <<Ev("add_subif", device, neighbor, lag_name,
                                      local.subif, << >>, None)>>
                            ELSE << >>)]
        ELSE IF local.subif # None
        THEN IF Len(port_pairs) = 0
             THEN [err |-> "IndexError", calls |-> << >>]
             ELSE [err |-> "",
                   calls |-> <<Ev("add_subif", device, neighbor, port_pairs[1].local,
                                  local.subif, << >>, None)>>]
        ELSE IF local.svi # None
        THEN [err |-> "", calls |-> <<Ev("add_svi", device, neighbor, << >>, local.svi,
                                         << >>, None)>>]
        ELSE [err |-> "", calls |-> << >>]

ProvisionIndependentBranches(device, neighbor, local) ==
    LET port_pairs == SearchConnections(neighbor)
        lag_name == LagName(local.lag)
    IN  [err |-> IF local.lag = None /\ local.subif # None /\ Len(port_pairs) = 0
                 THEN "IndexError" ELSE "",
         calls |-> (IF local.lag # None
                    THEN <<Ev("make_lag", device, neighbor, lag_name, local.lag,
                              LocalNames(port_pairs), local.lag_links_min)>>
                         \o (IF local.subif # None
                             THEN <<Ev("add_subif", device, neighbor, lag_name,
                                       local.subif, << >>, None)>>
                             ELSE << >>)
                    ELSE << >>)
                   \o (IF local.subif # None /\ Len(port_pairs) > 0
                       THEN <<Ev("add_subif", device, neighbor, port_pairs[1].local,
                                 local.subif, << >>, None)>>
                       ELSE << >>)
                   \o (IF local.svi # None
                       THEN <<Ev("add_svi", device, neighbor, << >>, local.svi,
                                 << >>, None)>>
                       ELSE << >>)]

ProvisionOnNeighbor(device, neighbor, local) ==
    LET lag == local.lag
        lag_links_min == local.lag_links_min
        svi == local.svi
        subif == local.subif
        port_pairs == SearchConnections(neighbor)
        lag_name == LagName(lag)
    IN  IF lag # None
        THEN [err |-> "",
              calls |-> <<Ev("make_lag", neighbor, neighbor, lag_name, lag,
                             LocalNames(port_pairs), lag_links_min)>>
                        \o (IF subif # None
                            THEN <<Ev("add_subif", neighbor, neighbor, lag_name, subif,
                                      << >>, None)>>
                            ELSE << >>)]
        ELSE IF subif # None
        THEN IF Len(port_pairs) = 0
             THEN [err |-> "IndexError", calls |-> << >>]
             ELSE [err |-> "",
                   calls |-> <<Ev("add_subif", neighbor, neighbor, port_pairs[1].local,
                                  subif, << >>, None)>>]
        ELSE IF svi # None
        THEN [err |-> "", calls |-> <<Ev("add_svi", neighbor, neighbor, << >>, svi,
                                         << >>, None)>>]
        ELSE [err |-> "", calls |-> << >>]

Provision(device, neighbor, local) ==
    LET lag == local.lag
        lag_links_min == local.lag_links_min
        svi == local.svi
        subif == local.subif
        port_pairs == SearchConnections(neighbor)
        lag_name == LagName(lag)
    IN  IF lag # None
        THEN [err |-> "",
              calls |-> <<Ev("make_lag", device, neighbor, lag_name, lag,
                             LocalNames(port_pairs), lag_links_min)>>
                        \o (IF subif # None
                            THEN <<Ev("add_subif", device, neighbor, lag_name, subif,
                                      << >>, None)>>
                            ELSE << >>)]
        ELSE IF subif # None
        THEN IF Len(port_pairs) = 0
             THEN [err |-> "IndexError", calls |-> << >>]
             ELSE [err |-> "",
                   calls |-> <<Ev("add_subif", device, neighbor, port_pairs[1].local,
                                  subif, << >>, None)>>]
        ELSE IF svi # None
        THEN [err |-> "", calls |-> <<Ev("add_svi", device, neighbor, << >>, svi,
                                         << >>, None)>>]
        ELSE [err |-> "", calls |-> << >>]

\* The interface a provisioning call creates on its device
Created(e) == [kind |-> e.op, on |-> e.target, id |-> e.id]

\* The interface sets after the calls: each call adds to the device it is
\* made on (Device.make_lag, Device.add_subif, Device.add_svi)
Provisioned(ifs, calls) ==
    [d \in DOMAIN ifs |->
        ifs[d] \cup {Created(calls[k]) : k \in {j \in 1..Len(calls) : calls[j].dev = d}}]

\* _process_neighbor(device, neighbor, local): the error it raises ("" if
\* none) and the provisioning calls it made before, in order.
ProcessNeighbor(device, neighbor, local) ==
    LET e == Validate(device, neighbor, local)
    IN  IF e # "" THEN [err |-> e, calls |-> << >>]
        ELSE Provision(device, neighbor, local)

-----------------------------------------------------------------------------
(* The rule lists the registry can answer a lookup with *)

Lists(S, n) == UNION {[1..k -> S] : k \in 0..n}

\* A rule whose handler writes w.d to the context of the current device,
\* w.r to the context of the remote device and w.s to the session, matched
\* with the current device on the left (direct_order) or on the right.
\* what the registry matched a side's name mask against
Matched(side, name) == <<side, name>>

MkRuleOf(device, order, remote, w) ==
    IF order
    THEN [direct_order |-> TRUE, name_left |-> device, name_right |-> remote,
          matched_left |-> Matched("left", device),
          matched_right |-> Matched("right", remote),
          hl |-> w.d, hr |-> w.r, hs |-> w.s]
    ELSE [direct_order |-> FALSE, name_left |-> remote, name_right |-> device,
          matched_left |-> Matched("left", remote),
          matched_right |-> Matched("right", device),
          hl |-> w.r, hr |-> w.d, hs |-> w.s]

MkRule(order, remote, w) == MkRuleOf(Device, order, remote, w)

W(d, r, s) == [d |-> d, r |-> r, s |-> s]

RulesOver(remotes, writes) ==
    {MkRule(o, n, w) : o \in BOOLEAN, n \in remotes, w \in writes}

LinkWrites ==
    { W(F(1, 2, None, None), F(1, None, None, None), PeerDTO),
      W(F(1, None, None, None), PeerDTO, F(None, 2, None, None)),
      W(F(None, None, 3, None), PeerDTO, PeerDTO),
      W(F(None, None, None, 5), F(None, None, None, 5), PeerDTO),
      W(F(None, None, None, 6), PeerDTO, PeerDTO),
      W(F(1, None, 3, None), F(None, None, 3, None), PeerDTO),
      W(F(1, 2, None, 5), PeerDTO, PeerDTO),
      W(PeerDTO, PeerDTO, PeerDTO) }

OrderWrites ==
    { W(F(1, 2, None, None), PeerDTO, PeerDTO),
      W(F(None, None, None, 5), F(None, None, 3, None), PeerDTO),
      W(F(None, None, 3, None), F(None, None, 4, None), PeerDTO) }

FarWrites ==
    { W(F(1, None, 3, None), F(None, None, None, 5), PeerDTO),
      W(F(None, None, None, 5), F(1, None, None, None), PeerDTO) }

FarReverseWrites == { W(F(None, None, None, 5), F(1, None, None, None), PeerDTO) }

\* global rules: the handler sets the option to hg, or sets nothing
GlobalRulesOf(device) ==
    {[matched |-> Matched("global", device), hg |-> v] : v \in {1, 2, None}}
GlobalRules == GlobalRulesOf(Device)

\* lookups of the specification of interface reconciliation: every write
\* for neighbour B, the ones that differ in kind for neighbour C
FewerForC ==
    { W(F(1, None, None, None), PeerDTO, F(None, 2, None, None)),
      W(F(None, None, None, 6), PeerDTO, PeerDTO),
      W(F(1, 2, None, 5), PeerDTO, PeerDTO) }
LinkRules ==
    {MkRule(TRUE, "B", w) : w \in LinkWrites}
    \cup {MkRule(TRUE, "C", w) : w \in LinkWrites \ FewerForC}
    \cup {MkRule(FALSE, "B", w) : w \in OrderWrites}
LinkDirect == Lists(LinkRules, MaxDirectRules)
LinkIndirect == Lists(RulesOver({"B"}, {W(F(1, None, 3, None), PeerDTO, PeerDTO)}), 1)
LinkGlobal == {gs \in Lists(GlobalRules, 2) : Len(gs) = 2 => gs[1].hg = 2}

\* lookups of the specification of processing order
OrderDirect == Lists(RulesOver(Neighbours, OrderWrites), 2)
FarRules ==
    {MkRule(TRUE, n, w) : n \in {"B", "D"}, w \in FarWrites}
    \cup {MkRule(FALSE, n, w) : n \in {"B", "D"}, w \in FarReverseWrites}
OrderIndirect == Lists(FarRules, MaxIndirectRules)
OrderGlobal == Lists(GlobalRules, 1)

\* registries fixed in advance: what the three lookups answer for a device
RegistryOf(direct, indirect, global) ==
    [direct |-> direct, indirect |-> indirect, global |-> global]

\* registries of a device whose call is repeated
TwiceRules(device) ==
    {MkRuleOf(device, TRUE, n, w) : n \in NeighboursOf(device), w \in OrderWrites}
    \cup {MkRuleOf(device, FALSE, n, W(F(None, None, None, 5), PeerDTO, PeerDTO)) :
              n \in NeighboursOf(device)}
TwiceRegistries(device) ==
    {RegistryOf(d, i, g) :
        d \in Lists(TwiceRules(device), MaxDirectRules),
        i \in Lists({MkRuleOf(device, TRUE, "D", W(PeerDTO, F(1, None, None, None), PeerDTO))}, 1),
        g \in Lists({[matched |-> Matched("global", device), hg |-> 1]}, 1)}

\* registries of two devices whose calls run together
PairRules(device) ==
    IF device = "A"
    THEN {MkRuleOf("A", TRUE, "B", W(F(1, 2, None, 5), F(1, None, None, None), PeerDTO)),
          MkRuleOf("A", FALSE, "B", W(F(None, None, None, 5), PeerDTO, PeerDTO)),
          MkRuleOf("A", TRUE, "C", W(F(None, None, 3, None), PeerDTO, PeerDTO))}
    ELSE {MkRuleOf("B", TRUE, "A", W(F(None, None, None, 6), F(None, None, 4, None), PeerDTO)),
          MkRuleOf("B", FALSE, "A", W(F(1, None, 3, None), PeerDTO, PeerDTO))}
PairRegistries(device) ==
    {RegistryOf(d, i, g) :
        d \in Lists(PairRules(device), IF device = "A" THEN MaxPairRules ELSE 1),
        i \in Lists({MkRuleOf(device, TRUE, "D", W(PeerDTO, F(1, None, None, None), PeerDTO))},
                    IF device = "A" THEN 1 ELSE 0),
        g \in Lists({[matched |-> Matched("global", device), hg |-> 1]},
                    IF device = "A" THEN 1 ELSE 0)}

-----------------------------------------------------------------------------
(* execute_for, step by step *)

Raise(e) ==
    /\ pc' = "raised"
    /\ err' = e

\* all_fqdns = self._storage.resolve_all_fdnds(); result = []
ResolveAll ==
    /\ pc = "start"
    /\ pc' = "lookup_direct"
    /\ all_fqdns' = Inventory
    /\ result' = << >>
    /\ trace' = Append(trace, Step("resolve_all_fdnds", "storage", ""))
    /\ UNCHANGED <<err, links, rules, ri, peers_dict, pairs, pi, global_opts, ret>>
    /\ UNCHANGED <<current, other, ifaces, registry, call, prev>>

\* _execute_direct: neighbor_peers = {}; the neighbors map; lookup_direct
LookupDirect(answers) ==
    /\ pc = "lookup_direct"
    /\ \E rs \in answers : rules' = rs
    /\ ri' = 1
    /\ peers_dict' = << >>
    /\ pc' = "direct"
    /\ trace' = Append(trace, Step("lookup_direct", "registry", ""))
    /\ UNCHANGED <<err, links, all_fqdns, pairs, pi, result, global_opts, ret>>
    /\ UNCHANGED <<current, other, ifaces, registry, call, prev>>

\* one iteration of the loop of _execute_direct
DirectRule ==
    /\ pc = "direct"
    /\ ri <= Len(rules)
    /\ LET rule == rules[ri]
           o == DirectPairOf(rule)
           key == o.pair.device
       IN  /\ trace' = trace \o <<Step("search_connections", "storage", key),
                                  Step("direct_handler", "rule", key)>>
           /\ call' = HandlerCall("direct_handler", rule, o)
           /\ IF o.conflict \/ StorePairConflict(peers_dict, key, o.pair)
              THEN /\ Raise("MergeConflict")
                   /\ UNCHANGED <<ri, peers_dict>>
              ELSE /\ peers_dict' = StorePair(peers_dict, key, o.pair)
                   /\ ri' = ri + 1
                   /\ UNCHANGED <<pc, err>>
    /\ UNCHANGED <<links, all_fqdns, rules, pairs, pi, result, global_opts, ret>>
    /\ UNCHANGED <<current, other, ifaces, registry, prev>>

DirectReturnAnyOrder ==
    /\ pc = "direct"
    /\ ri > Len(rules)
    /\ LET values == DictValues(peers_dict)
           all == {values[i] : i \in 1..Len(values)}
       IN  pairs' \in {p \in [1..Len(values) -> all] : \A v \in all : \E i \in 1..Len(p) : p[i] = v}
    /\ pi' = 1
    /\ rules' = << >>
    /\ ri' = 1
    /\ peers_dict' = << >>
    /\ pc' = "reconcile"
    /\ call' = << >>
    /\ UNCHANGED <<err, links, all_fqdns, result, global_opts, ret, trace>>
    /\ UNCHANGED <<current, other, ifaces, registry, prev>>

\* return list(neighbor_peers.values())
DirectReturn ==
    /\ pc = "direct"
    /\ ri > Len(rules)
    /\ pairs' = DictValues(peers_dict)
    /\ pi' = 1
    /\ rules' = << >>
    /\ ri' = 1
    /\ peers_dict' = << >>
    /\ pc' = "reconcile"
    /\ call' = << >>
    /\ UNCHANGED <<err, links, all_fqdns, result, global_opts, ret, trace>>
    /\ UNCHANGED <<current, other, ifaces, registry, prev>>

ReconcilePairAppendOnly ==
    /\ pc = "reconcile"
    /\ pi <= Len(pairs)
    /\ result' = Append(result, ToBgpPeer(pairs[pi]))
    /\ pi' = pi + 1
    /\ UNCHANGED <<pc, err, links, all_fqdns, rules, ri, peers_dict, pairs,
                   global_opts, ret, trace>>
    /\ UNCHANGED <<current, other, ifaces, registry, call, prev>>

ReconcilePairUndoing ==
    /\ pc = "reconcile"
    /\ pi <= Len(pairs)
    /\ LET neighbor == pairs[pi]
           o == ProcessNeighbor(Device, neighbor.device, neighbor.local)
       IN  /\ result' = Append(result, ToBgpPeer(neighbor))
           /\ trace' = trace \o <<Step("process_neighbor", "executor", neighbor.device)>>
                             \o o.calls
           /\ ifaces' = IF o.err # "" THEN [ifaces EXCEPT ![Device] = {}]
                         ELSE Provisioned(ifaces, o.calls)
           /\ IF o.err # ""
              THEN /\ Raise(o.err)
                   /\ UNCHANGED pi
              ELSE /\ pi' = pi + 1
                   /\ UNCHANGED <<pc, err>>
    /\ UNCHANGED <<links, all_fqdns, rules, ri, peers_dict, pairs, global_opts, ret>>
    /\ UNCHANGED <<current, other, registry, call, prev>>

\* one iteration of the loop over the direct pairs:
\* result.append(self._to_bgp_peer(neighbor)); self._process_neighbor(...)
ReconcilePair ==
    /\ pc = "reconcile"
    /\ pi <= Len(pairs)
    /\ LET neighbor == pairs[pi]
           o == ProcessNeighbor(Device, neighbor.device, neighbor.local)
       IN  /\ result' = Append(result, ToBgpPeer(neighbor))
           /\ trace' = trace \o <<Step("process_neighbor", "executor", neighbor.device)>>
                             \o o.calls
           /\ ifaces' = Provisioned(ifaces, o.calls)
           /\ IF o.err # ""
              THEN /\ Raise(o.err)
                   /\ UNCHANGED pi
              ELSE /\ pi' = pi + 1
                   /\ UNCHANGED <<pc, err>>
    /\ UNCHANGED <<links, all_fqdns, rules, ri, peers_dict, pairs, global_opts, ret>>
    /\ UNCHANGED <<current, other, registry, call, prev>>

\* _execute_indirect: connected_peers = {}; lookup_indirect
LookupIndirect(answers) ==
    /\ pc = "reconcile"
    /\ pi > Len(pairs)
    /\ \E rs \in answers : rules' = rs
    /\ ri' = 1
    /\ peers_dict' = << >>
    /\ pc' = "indirect"
    /\ trace' = Append(trace, Step("lookup_indirect", "registry", ""))
    /\ UNCHANGED <<err, links, all_fqdns, pairs, pi, result, global_opts, ret>>
    /\ UNCHANGED <<current, other, ifaces, registry, call, prev>>

\* one iteration of the loop of _execute_indirect
IndirectRule ==
    /\ pc = "indirect"
    /\ ri <= Len(rules)
    /\ LET rule == rules[ri]
           o == IndirectPairOf(rule)
           key == o.pair.device
       IN  /\ trace' = trace \o <<Step("make_devices", "storage", key),
                                  Step("indirect_handler", "rule", key)>>
           /\ call' = HandlerCall("indirect_handler", rule, o)
           /\ IF o.conflict \/ StorePairConflict(peers_dict, key, o.pair)
              THEN /\ Raise("MergeConflict")
                   /\ UNCHANGED <<ri, peers_dict>>
              ELSE /\ peers_dict' = StorePair(peers_dict, key, o.pair)
                   /\ ri' = ri + 1
                   /\ UNCHANGED <<pc, err>>
    /\ UNCHANGED <<links, all_fqdns, rules, pairs, pi, result, global_opts, ret>>
    /\ UNCHANGED <<current, other, ifaces, registry, prev>>

\* The peers the loop over the indirect pairs appends to result
IndirectPeers(d) == [i \in 1..Len(d) |-> ToBgpPeer(DictValues(d)[i])]

IndirectReturnReconciling ==
    /\ pc = "indirect"
    /\ ri > Len(rules)
    /\ result' = result \o IndirectPeers(peers_dict)
    /\ rules' = << >>
    /\ ri' = 1
    /\ call' = << >>
    /\ peers_dict' = << >>
    /\ LET o == IF peers_dict = << >> THEN [err |-> "", calls |-> << >>]
                ELSE ProcessNeighbor(Device, peers_dict[1].val.device,
                                     peers_dict[1].val.local)
       IN  /\ trace' = trace \o o.calls
           /\ ifaces' = Provisioned(ifaces, o.calls)
           /\ IF o.err # "" THEN Raise(o.err)
              ELSE pc' = "lookup_global" /\ UNCHANGED err
    /\ UNCHANGED <<links, all_fqdns, pairs, pi, global_opts, ret>>
    /\ UNCHANGED <<current, other, registry, prev>>

\* return list(connected_peers.values()) and the loop of lines 154-155
IndirectReturn ==
    /\ pc = "indirect"
    /\ ri > Len(rules)
    /\ result' = result \o IndirectPeers(peers_dict)
    /\ rules' = << >>
    /\ ri' = 1
    /\ peers_dict' = << >>
    /\ pc' = "lookup_global"
    /\ call' = << >>
    /\ UNCHANGED <<err, links, all_fqdns, pairs, pi, global_opts, ret, trace>>
    /\ UNCHANGED <<current, other, ifaces, registry, prev>>

\* _execute_globals: global_opts = GlobalOptionsDTO(); lookup_global
LookupGlobal(answers) ==
    /\ pc = "lookup_global"
    /\ \E rs \in answers : rules' = rs
    /\ ri' = 1
    /\ global_opts' = GlobalOptionsDTO
    /\ pc' = "globals"
    /\ trace' = Append(trace, Step("lookup_global", "registry", ""))
    /\ UNCHANGED <<err, links, all_fqdns, peers_dict, pairs, pi, result, ret>>
    /\ UNCHANGED <<current, other, ifaces, registry, call, prev>>

GlobalRuleLastWins ==
    /\ pc = "globals"
    /\ ri <= Len(rules)
    /\ LET rule == rules[ri]
           fresh == MeshGlobalOptions(rule.matched, Device)
           rule_global_opts == GlobalHandler(rule, fresh)
       IN  /\ trace' = Append(trace, Ev("global_handler", "rule", "", << >>, rule.hg,
                                         << >>, None))
           /\ call' = <<[op |-> "global_handler", rule |-> rule, ctx |-> fresh,
                         out |-> rule_global_opts]>>
           /\ IF MergeGlobalConflict(global_opts, rule_global_opts)
              THEN /\ Raise("MergeConflict")
                   /\ UNCHANGED <<ri, global_opts>>
              ELSE /\ global_opts' = [opt |-> rule_global_opts.opt]
                   /\ ri' = ri + 1
                   /\ UNCHANGED <<pc, err>>
    /\ UNCHANGED <<links, all_fqdns, rules, peers_dict, pairs, pi, result, ret>>
    /\ UNCHANGED <<current, other, ifaces, registry, prev>>

\* one iteration of the loop of _execute_globals
GlobalRule ==
    /\ pc = "globals"
    /\ ri <= Len(rules)
    /\ LET rule == rules[ri]
           fresh == MeshGlobalOptions(rule.matched, Device)
           rule_global_opts == GlobalHandler(rule, fresh)
       IN  /\ trace' = Append(trace, Ev("global_handler", "rule", "", << >>, rule.hg,
                                         << >>, None))
           /\ call' = <<[op |-> "global_handler", rule |-> rule, ctx |-> fresh,
                         out |-> rule_global_opts]>>
           /\ IF MergeGlobalConflict(global_opts, rule_global_opts)
              THEN /\ Raise("MergeConflict")
                   /\ UNCHANGED <<ri, global_opts>>
              ELSE /\ global_opts' = MergeGlobal(global_opts, rule_global_opts)
                   /\ ri' = ri + 1
                   /\ UNCHANGED <<pc, err>>
    /\ UNCHANGED <<links, all_fqdns, rules, peers_dict, pairs, pi, result, ret>>
    /\ UNCHANGED <<current, other, ifaces, registry, prev>>

\* return MeshExecutionResult(global_options=..., peers=result)
Return ==
    /\ pc = "globals"
    /\ ri > Len(rules)
    /\ ret' = <<[global_options |-> ToBgpGlobal(global_opts), peers |-> result]>>
    /\ ri' = 1
    /\ pc' = "done"
    /\ call' = << >>
    /\ UNCHANGED <<err, links, all_fqdns, rules, peers_dict, pairs, pi, result, global_opts, trace>>
    /\ UNCHANGED <<current, other, ifaces, registry, prev>>

-----------------------------------------------------------------------------
(* Calls repeated and calls running together *)

NoInterfaces == [d \in {Inventory[i] : i \in 1..Len(Inventory)} |-> {}]

\* the locals of an execute_for(device) call that has not started
NewCall(device) ==
    [device |-> device, pc |-> "start", err |-> "", all_fqdns |-> << >>,
     rules |-> << >>, ri |-> 1, peers_dict |-> << >>, pairs |-> << >>, pi |-> 1,
     result |-> << >>, global_opts |-> GlobalOptionsDTO, ret |-> << >>,
     trace |-> << >>, call |-> << >>]

\* the locals of the running call
Running ==
    [device |-> current, pc |-> pc, err |-> err, all_fqdns |-> all_fqdns,
     rules |-> rules, ri |-> ri, peers_dict |-> peers_dict, pairs |-> pairs,
     pi |-> pi, result |-> result, global_opts |-> global_opts, ret |-> ret,
     trace |-> trace, call |-> call]

\* what a call that ended gave its caller and did to its device
OutcomeOf(c) ==
    [ret |-> c.ret, err |-> c.err,
     calls |-> SelectSeq(c.trace, LAMBDA e : e.op \in ProvisioningOps)]

EndedCall(c) == c.pc \in {"done", "raised"}

\* The scheduler suspends the running call and resumes the other one.  In
\* the first pass the calls run one after the other.
SwitchSharingResult ==
    /\ other # << >>
    /\ ~EndedCall(other[1])
    /\ prev = << >> => EndedCall(Running)
    /\ current' = other[1].device
    /\ pc' = other[1].pc
    /\ err' = other[1].err
    /\ all_fqdns' = other[1].all_fqdns
    /\ rules' = other[1].rules
    /\ ri' = other[1].ri
    /\ peers_dict' = other[1].peers_dict
    /\ pairs' = other[1].pairs
    /\ pi' = other[1].pi
    /\ result' = result
    /\ global_opts' = other[1].global_opts
    /\ ret' = other[1].ret
    /\ trace' = other[1].trace
    /\ call' = other[1].call
    /\ other' = <<[Running EXCEPT !.result = other[1].result]>>
    /\ UNCHANGED <<links, ifaces, registry, prev>>

Switch ==
    /\ other # << >>
    /\ ~EndedCall(other[1])
    /\ prev = << >> => EndedCall(Running)
    /\ current' = other[1].device
    /\ pc' = other[1].pc
    /\ err' = other[1].err
    /\ all_fqdns' = other[1].all_fqdns
    /\ rules' = other[1].rules
    /\ ri' = other[1].ri
    /\ peers_dict' = other[1].peers_dict
    /\ pairs' = other[1].pairs
    /\ pi' = other[1].pi
    /\ result' = other[1].result
    /\ global_opts' = other[1].global_opts
    /\ ret' = other[1].ret
    /\ trace' = other[1].trace
    /\ call' = other[1].call
    /\ other' = <<Running>>
    /\ UNCHANGED <<links, ifaces, registry, prev>>

\* Once every call of the first pass has ended, its outcome is kept and the
\* same calls are made again on the same registry, storage and devices; the
\* locals of a new call hold nothing the code relies on.
Again ==
    /\ prev = << >>
    /\ EndedCall(Running)
    /\ other # << >> => EndedCall(other[1])
    /\ prev' = <<[d \in {current} \cup {other[i].device : i \in 1..Len(other)} |->
                    IF d = current THEN OutcomeOf(Running) ELSE OutcomeOf(other[1])]>>
    /\ pc' = "start"
    /\ err' = ""
    /\ ret' = << >>
    /\ trace' = << >>
    /\ call' = << >>
    /\ other' = [i \in 1..Len(other) |->
                    [other[i] EXCEPT !.pc = "start", !.err = "", !.ret = << >>,
                                     !.trace = << >>, !.call = << >>]]
    /\ ifaces' = NoInterfaces
    /\ UNCHANGED <<current, links, registry, all_fqdns, rules, ri, peers_dict, pairs,
                   pi, result, global_opts>>

-----------------------------------------------------------------------------
(* Specifications *)

Init ==
    /\ current = "A"
    /\ pc = "start"
    /\ err = ""
    /\ links \in [Neighbours -> 0..MaxLinks]
    /\ all_fqdns = << >>
    /\ rules = << >>
    /\ ri = 1
    /\ peers_dict = << >>
    /\ pairs = << >>
    /\ pi = 1
    /\ result = << >>
    /\ global_opts = GlobalOptionsDTO
    /\ ret = << >>
    /\ trace = << >>
    /\ other = << >>
    /\ ifaces = NoInterfaces
    /\ registry = << >>
    /\ call = << >>
    /\ prev = << >>

\* every neighbour is attached by exactly one interface pair
InitOrder ==
    /\ Init
    /\ \A n \in Neighbours : links[n] = 1

Next ==
    \/ ResolveAll
    \/ LookupDirect(LinkDirect)
    \/ DirectRule
    \/ DirectReturn
    \/ ReconcilePair
    \/ LookupIndirect(LinkIndirect)
    \/ IndirectRule
    \/ IndirectReturn
    \/ LookupGlobal(LinkGlobal)
    \/ GlobalRule
    \/ Return

NextOrder ==
    \/ ResolveAll
    \/ LookupDirect(OrderDirect)
    \/ DirectRule
    \/ DirectReturn
    \/ ReconcilePair
    \/ LookupIndirect(OrderIndirect)
    \/ IndirectRule
    \/ IndirectReturn
    \/ LookupGlobal(OrderGlobal)
    \/ GlobalRule
    \/ Return

Spec == Init /\ [][Next]_vars

\* one device, a registry fixed in advance, the call made twice
InitTwice ==
    /\ current = "A"
    /\ pc = "start"
    /\ err = ""
    /\ links \in [NeighboursOf("A") -> 0..MaxLinks]
    /\ all_fqdns = << >>
    /\ rules = << >>
    /\ ri = 1
    /\ peers_dict = << >>
    /\ pairs = << >>
    /\ pi = 1
    /\ result = << >>
    /\ global_opts = GlobalOptionsDTO
    /\ ret = << >>
    /\ trace = << >>
    /\ other = << >>
    /\ ifaces = NoInterfaces
    /\ registry \in [{"A"} -> TwiceRegistries("A")]
    /\ call = << >>
    /\ prev = << >>

NextTwice ==
    \/ ResolveAll
    \/ LookupDirect({registry[Device].direct})
    \/ DirectRule
    \/ DirectReturn
    \/ ReconcilePair
    \/ LookupIndirect({registry[Device].indirect})
    \/ IndirectRule
    \/ IndirectReturn
    \/ LookupGlobal({registry[Device].global})
    \/ GlobalRule
    \/ Return
    \/ Again

SpecTwice == InitTwice /\ [][NextTwice]_vars

\* two devices, A and its neighbour B, each with a call of its own
InitPair ==
    /\ current = "A"
    /\ pc = "start"
    /\ err = ""
    /\ links \in [NeighboursOf("A") -> 0..MaxLinks]
    /\ links["C"] = 1
    /\ all_fqdns = << >>
    /\ rules = << >>
    /\ ri = 1
    /\ peers_dict = << >>
    /\ pairs = << >>
    /\ pi = 1
    /\ result = << >>
    /\ global_opts = GlobalOptionsDTO
    /\ ret = << >>
    /\ trace = << >>
    /\ other = <<NewCall("B")>>
    /\ ifaces = NoInterfaces
    /\ registry \in {[d \in {"A", "B"} |-> IF d = "A" THEN a ELSE b] :
                         a \in PairRegistries("A"), b \in PairRegistries("B")}
    /\ call = << >>
    /\ prev = << >>

NextPair ==
    \/ ResolveAll
    \/ LookupDirect({registry[Device].direct})
    \/ DirectRule
    \/ DirectReturn
    \/ ReconcilePair
    \/ LookupIndirect({registry[Device].indirect})
    \/ IndirectRule
    \/ IndirectReturn
    \/ LookupGlobal({registry[Device].global})
    \/ GlobalRule
    \/ Return
    \/ Switch
    \/ Again

SpecPair == InitPair /\ [][NextPair]_vars

SpecOrder == InitOrder /\ [][NextOrder]_vars

TypeOK ==
    /\ pc \in {"start", "lookup_direct", "direct", "reconcile", "indirect",
               "lookup_global", "globals", "done", "raised"}
    /\ err \in {"", "LagSvi", "SubifSvi", "MultiLink", "IndexError", "MergeConflict"}
    /\ (pc = "raised") <=> (err # "")
    /\ (pc = "done") <=> (ret # << >>)

-----------------------------------------------------------------------------
(* Reading the trace *)

TraceIdx == 1..Len(trace)

\* the provisioning calls made for neighbour n, in order
ProvCalls(n) == SelectSeq(trace, LAMBDA e : e.op \in ProvisioningOps /\ e.nbr = n)

\* all provisioning calls, in order
AllProvCalls == SelectSeq(trace, LAMBDA e : e.op \in ProvisioningOps)

\* _process_neighbor has been entered for neighbour n
Processed(n) == \E k \in TraceIdx : trace[k].op = "process_neighbor" /\ trace[k].nbr = n

PairIdx == 1..Len(pairs)

LinksTo(n) == Len(SearchConnections(n))

LagAndSvi(local) == local.lag # None /\ local.svi # None
SviAndSubif(local) == local.svi # None /\ local.subif # None
Ambiguous(n, local) == LinksTo(n) > 1 /\ local.lag = None /\ local.svi = None

ValidationErrors == {"LagSvi", "SubifSvi", "MultiLink"}

\* execute_for has ended, by a return or by an exception
Ended == pc \in {"done", "raised"}

\* pair i is the first direct pair whose reconciliation raised
RaisedAt(i) == pc = "raised" /\ Len(pairs) > 0 /\ pi = i /\ Processed(pairs[i].device)

-----------------------------------------------------------------------------
(* Claims *)

\* C1: for every direct neighbour whose reconciliation has run and whose
\* merged local fragment fails one of the three validations (lag and svi, svi
\* and subif, several connecting pairs with neither lag nor svi), execute_for
\* has raised a validation error, has returned no result, and no make_lag,
\* add_subif or add_svi call has been made for that neighbour.
C1_ValidationFailsBeforeProvisioning ==
    \A i \in PairIdx :
        LET n == pairs[i].device
            local == pairs[i].local
        IN  (Processed(n) /\ (LagAndSvi(local) \/ SviAndSubif(local) \/ Ambiguous(n, local)))
            => /\ pc = "raised"
               /\ err \in ValidationErrors
               /\ ret = << >>
               /\ ProvCalls(n) = << >>

\* a validation failed for the second neighbour after calls for the first
C1_Witness ==
    /\ pc = "raised"
    /\ err \in ValidationErrors
    /\ pi = 2
    /\ ProvCalls(pairs[1].device) # << >>
    /\ ProvCalls(pairs[2].device) = << >>

\* C2 as stated: when execute_for raises the lag-and-svi error for a direct
\* neighbour whose merged local fragment has both lag and svi, no make_lag
\* or add_svi call at all has been made on the device during that call,
\* however many direct neighbours there are.
C2_NoLagOrSviCallAtAll ==
    (pc = "raised" /\ err = "LagSvi")
    => \A k \in TraceIdx : trace[k].op \notin {"make_lag", "add_svi"}

\* C2 amended: whenever a direct neighbour's merged local fragment has both
\* lag and svi, execute_for returns no result and makes no provisioning call
\* for that neighbour; when that neighbour is the first whose reconciliation
\* fails, the error is the lag-and-svi error and no call has been made for it
\* or any later pair (calls for earlier pairs stay made).
C2_LagSviRaisesBeforeOwnCalls ==
    \A i \in PairIdx :
        LagAndSvi(pairs[i].local)
        => /\ pc # "done"
           /\ ret = << >>
           /\ ProvCalls(pairs[i].device) = << >>
           /\ Processed(pairs[i].device) => (pc = "raised" /\ err = "LagSvi")
           /\ RaisedAt(i) => \A j \in i..Len(pairs) : ProvCalls(pairs[j].device) = << >>

\* the lag-and-svi error was raised for the second neighbour after a make_lag
\* or add_svi call for the first
C2_Witness ==
    /\ RaisedAt(2)
    /\ err = "LagSvi"
    /\ LagAndSvi(pairs[2].local)
    /\ \E k \in TraceIdx : trace[k].op \in {"make_lag", "add_svi"}

\* C3 as stated: when several interface pairs connect the device and a direct
\* neighbour with a merged Pair and neither lag nor svi is set, execute_for
\* ends with the ambiguous-multi-link error (the IndexError of an empty
\* connection list left aside); a reconciliation over several connecting
\* pairs that succeeded had exactly one of lag and svi set.
C3_AlwaysAmbiguousError ==
    /\ (\E i \in PairIdx : Ambiguous(pairs[i].device, pairs[i].local))
       => (Ended => err \in {"MultiLink", "IndexError"})
    /\ \A i \in PairIdx :
          (Processed(pairs[i].device) /\ LinksTo(pairs[i].device) > 1 /\ ~RaisedAt(i))
          => (pairs[i].local.lag # None) # (pairs[i].local.svi # None)

\* C3 amended: in that case execute_for returns no result, and the error is
\* the ambiguous-multi-link error whenever reconciliation reaches that
\* neighbour (no earlier pair failed); a reconciliation over several
\* connecting pairs that succeeded had exactly one of lag and svi set.
C3_AmbiguousRaisesWhenReached ==
    \A i \in PairIdx :
        LET n == pairs[i].device
            local == pairs[i].local
        IN  /\ Ambiguous(n, local)
               => /\ pc # "done"
                  /\ ret = << >>
                  /\ Processed(n) => (RaisedAt(i) /\ err = "MultiLink")
            /\ (Processed(n) /\ LinksTo(n) > 1 /\ ~RaisedAt(i))
               => (local.lag # None) # (local.svi # None)

\* the ambiguous-multi-link error was raised with subif set, and another
\* neighbour over several pairs was reconciled before
C3_Witness ==
    /\ RaisedAt(2)
    /\ err = "MultiLink"
    /\ pairs[2].local.subif # None
    /\ LinksTo(pairs[2].device) > 1
    /\ LinksTo(pairs[1].device) > 1

\* C4: with exactly one connecting pair, subif = s and neither lag nor svi on
\* the merged local fragment, the reconciliation of that neighbour makes
\* exactly one provisioning call: add_subif(the single local interface, s).
C4_SingleLinkSubif ==
    \A i \in PairIdx :
        LET n == pairs[i].device
            local == pairs[i].local
        IN  (Processed(n) /\ LinksTo(n) = 1 /\ local.subif # None
                /\ local.lag = None /\ local.svi = None)
            => /\ ProvCalls(n) = <<Ev("add_subif", Device, n, LocalPort(n, 1),
                                      local.subif, << >>, None)>>
               /\ ~RaisedAt(i)

C4_Witness ==
    \E i \in PairIdx :
        /\ Processed(pairs[i].device)
        /\ LinksTo(pairs[i].device) = 1
        /\ pairs[i].local.subif # None
        /\ pairs[i].local.lag = None
        /\ pairs[i].local.svi = None
        /\ Len(ProvCalls(pairs[i].device)) = 1

\* C5: with lag set and svi absent, the reconciliation of that neighbour
\* calls make_lag once with the local names of all connecting pairs in
\* search_connections order and lag_links_min; with subif also set it then
\* calls add_subif once on the identifier make_lag returned; nothing else.
C5_LagThenSubif ==
    \A i \in PairIdx :
        LET n == pairs[i].device
            local == pairs[i].local
            made == Ev("make_lag", Device, n, LagName(local.lag), local.lag,
                       [k \in 1..links[n] |-> LocalPort(n, k)], local.lag_links_min)
            sub == Ev("add_subif", Device, n, LagName(local.lag), local.subif, << >>, None)
        IN  (Processed(n) /\ local.lag # None /\ local.svi = None)
            => /\ ProvCalls(n) = IF local.subif # None THEN <<made, sub>> ELSE <<made>>
               /\ ~RaisedAt(i)

\* a lag over two links with lag_links_min and a sub-interface on it
C5_Witness ==
    \E i \in PairIdx :
        /\ Processed(pairs[i].device)
        /\ links[pairs[i].device] = 2
        /\ pairs[i].local.lag # None
        /\ pairs[i].local.lag_links_min # None
        /\ pairs[i].local.subif # None
        /\ Len(ProvCalls(pairs[i].device)) = 2

-----------------------------------------------------------------------------
(* Claims about the order of processing and the pairs *)

Range(seq) == {seq[i] : i \in 1..Len(seq)}

Distinct(seq) == \A i, j \in 1..Len(seq) : seq[i] = seq[j] => i = j

\* the elements of seq in the order of their first occurrence
RECURSIVE FirstSeen(_)
FirstSeen(seq) ==
    IF seq = << >> THEN << >>
    ELSE LET f == FirstSeen(SubSeq(seq, 1, Len(seq) - 1))
             x == seq[Len(seq)]
         IN  IF x \in Range(f) THEN f ELSE Append(f, x)

\* the remote fqdns the handlers of kind op were run for, in rule order
HandledBy(op) ==
    LET hs == SelectSeq(trace, LAMBDA e : e.op = op)
    IN  [i \in 1..Len(hs) |-> hs[i].nbr]

Remotes(peers) == [i \in 1..Len(peers) |-> peers[i].remote]

\* the peers of the returned result that came from direct / indirect pairs
DirectGroup == SubSeq(ret[1].peers, 1, Len(pairs))
IndirectGroup == SubSeq(ret[1].peers, Len(pairs) + 1, Len(ret[1].peers))

\* C6: once indirect processing has begun no make_lag, add_subif or add_svi
\* call and no reconciliation follows, whatever the indirect fragments hold;
\* every provisioning call is one made on the device for a direct pair, and
\* no validation error (nor the indexing error of reconciliation) is raised
\* after indirect processing has begun.
C6_IndirectNeverProvisions ==
    /\ \A k \in TraceIdx :
          trace[k].op \in IndirectOps
          => /\ \A j \in k..Len(trace) :
                   trace[j].op \notin ProvisioningOps \cup {"process_neighbor"}
             /\ err \in {"", "MergeConflict"}
    /\ \A k \in TraceIdx :
          trace[k].op \in ProvisioningOps
          => /\ trace[k].dev = Device
             /\ \E i \in PairIdx : pairs[i].device = trace[k].nbr

\* a result was returned with an indirect peer whose fragment has lag and
\* svi, for a target that is a direct neighbour as well, and direct calls
C6_Witness ==
    /\ pc = "done"
    /\ AllProvCalls # << >>
    /\ \E i \in 1..Len(IndirectGroup) :
          /\ LagAndSvi(IndirectGroup[i].options)
          /\ IndirectGroup[i].options.subif # None
          /\ IndirectGroup[i].remote \in Range(Remotes(DirectGroup))

\* C7: in the returned peers list the peers of the direct pairs come first,
\* then the peers of the indirect pairs, each group in the order in which
\* its remote fqdn was first produced by a rule, in registry order.
C7_PeersInFirstSeenOrder ==
    pc = "done"
    => /\ Remotes(DirectGroup) = FirstSeen(HandledBy("direct_handler"))
       /\ Remotes(IndirectGroup) = FirstSeen(HandledBy("indirect_handler"))
       /\ ret[1].peers = DirectGroup \o IndirectGroup

\* three indirect rules, the third for the fqdn of the first, and two direct
\* peers
C7_Witness ==
    /\ pc = "done"
    /\ HandledBy("indirect_handler") = <<"B", "D", "B">>
    /\ Len(DirectGroup) = 2
    /\ Len(IndirectGroup) = 2

\* the Pair a rule yields when it runs alone
SinglePair(rule) ==
    IF pc = "direct" THEN DirectPairOf(rule).pair ELSE IndirectPairOf(rule).pair

RECURSIVE FoldPairs(_)
FoldPairs(ps) ==
    IF Len(ps) = 1 THEN ps[1]
    ELSE MergePair(FoldPairs(SubSeq(ps, 1, Len(ps) - 1)), ps[Len(ps)])

\* the single-rule Pairs of the rules run so far for remote fqdn key
SinglePairsFor(key) ==
    LET done == SubSeq(rules, 1, ri - 1)
        mine == SelectSeq(done, LAMBDA r : SinglePair(r).device = key)
    IN  [i \in 1..Len(mine) |-> SinglePair(mine[i])]

\* C8: in _execute_direct and in _execute_indirect the dict holds one Pair
\* per remote fqdn matched so far, and that Pair is the left fold of merge,
\* in registry order, over the Pairs of the single rules for that fqdn; at
\* the exit of the loop this is the list returned.
C8_OnePairPerFqdnIsFold ==
    (pc \in {"direct", "indirect"})
    => /\ Distinct([i \in 1..Len(peers_dict) |-> peers_dict[i].key])
       /\ {peers_dict[i].key : i \in 1..Len(peers_dict)}
             = {SinglePair(rules[j]).device : j \in 1..(ri - 1)}
       /\ \A i \in 1..Len(peers_dict) :
             /\ peers_dict[i].val = FoldPairs(SinglePairsFor(peers_dict[i].key))
             /\ peers_dict[i].val.device = peers_dict[i].key

\* three rules were merged into one Pair at the exit of the indirect loop
C8_Witness ==
    /\ pc = "indirect"
    /\ Len(rules) = 3
    /\ ri = 4
    /\ Len(peers_dict) = 1
    /\ peers_dict[1].val # SinglePair(rules[3])

\* C9 as stated: a returned result has at most one peer per remote fqdn,
\* also for an fqdn matched by a direct rule and by an indirect rule.
C9_OnePeerPerFqdn ==
    pc = "done" => Distinct(Remotes(ret[1].peers))

\* C9 amended: a returned result has at most one peer per remote fqdn among
\* the peers of the direct pairs and at most one among the peers of the
\* indirect pairs; an fqdn matched by a direct and by an indirect rule has one
\* peer in each group.
C9_OnePeerPerFqdnPerGroup ==
    pc = "done"
    => /\ Distinct(Remotes(DirectGroup))
       /\ Distinct(Remotes(IndirectGroup))
       /\ Range(Remotes(DirectGroup)) = Range(HandledBy("direct_handler"))
       /\ Range(Remotes(IndirectGroup)) = Range(HandledBy("indirect_handler"))

\* neighbour B has a direct and an indirect peer in the result, each merged
\* from two rules
C9_Witness ==
    /\ pc = "done"
    /\ HandledBy("direct_handler") = <<"B", "B">>
    /\ Len(SelectSeq(HandledBy("indirect_handler"), LAMBDA n : n = "B")) = 2
    /\ Len(SelectSeq(Remotes(ret[1].peers), LAMBDA n : n = "B")) = 2

\* C10: when the first step of indirect processing is taken every direct
\* pair has been reconciled, every provisioning call precedes every step of
\* indirect processing, and a returned result has every direct pair
\* reconciled, with a call for each pair whose fragment asks for one.
C10_DirectCallsBeforeIndirect ==
    /\ \A k \in TraceIdx :
          trace[k].op \in IndirectOps
          => \A i \in PairIdx :
                \E j \in 1..(k - 1) :
                    trace[j].op = "process_neighbor" /\ trace[j].nbr = pairs[i].device
    /\ \A k, j \in TraceIdx :
          (trace[k].op \in ProvisioningOps /\ trace[j].op \in IndirectOps) => k < j
    /\ pc = "done"
       => \A i \in PairIdx :
             /\ Processed(pairs[i].device)
             /\ (pairs[i].local.lag # None \/ pairs[i].local.svi # None
                   \/ pairs[i].local.subif # None)
                => ProvCalls(pairs[i].device) # << >>

\* a result was returned after calls for two direct pairs and indirect rules
C10_Witness ==
    /\ pc = "done"
    /\ Len(pairs) = 2
    /\ \A i \in PairIdx : ProvCalls(pairs[i].device) # << >>
    /\ Len(HandledBy("indirect_handler")) >= 2

-----------------------------------------------------------------------------
(* Claims about the branches of reconciliation *)

\* reconciliation of pair i passed the validations and took the branch of
\* lines 139-142: subif set, lag absent
SubifOnPhysical(i) ==
    /\ Processed(pairs[i].device)
    /\ Validate(Device, pairs[i].device, pairs[i].local) = ""
    /\ pairs[i].local.lag = None
    /\ pairs[i].local.subif # None

\* C17: whenever reconciliation takes the branch that creates a sub-interface
\* directly on a physical interface (subif set, lag absent), exactly one
\* interface pair connects the device and the neighbour, and reconciliation
\* does not fail; with no connecting pair it makes no call and does not fail.
C17_SubifBranchHasOneLink ==
    \A i \in PairIdx :
        SubifOnPhysical(i)
        => /\ LinksTo(pairs[i].device) = 1 \/ ProvCalls(pairs[i].device) = << >>
           /\ ~RaisedAt(i)

-----------------------------------------------------------------------------
(* Claims about the handler calls *)

GlobalHandled == SelectSeq(trace, LAMBDA e : e.op = "global_handler")

RECURSIVE FoldGlobal(_, _)
\* the left fold of merge over the contexts of the first n rules, each
\* handled from a fresh context, starting from an empty GlobalOptionsDTO
FoldGlobal(rs, n) ==
    IF n = 0 THEN GlobalOptionsDTO
    ELSE MergeGlobal(FoldGlobal(rs, n - 1),
                     GlobalHandler(rs[n], MeshGlobalOptions(rs[n].matched, Device)))

\* the global rules whose handler has been called so far
GlobalCalled ==
    IF pc = "globals" THEN ri - 1
    ELSE IF pc = "raised" /\ Len(GlobalHandled) > 0 THEN ri
    ELSE IF pc = "done" THEN Len(rules)
    ELSE 0

\* C14: _execute_globals calls the handler of each lookup_global rule exactly
\* once and in registry order, each on a fresh context bound to
\* (rule.matched, device); the fragment returned is the left fold of merge
\* over these contexts from an empty GlobalOptionsDTO; no make_lag, add_subif
\* or add_svi call is made in this path.
C14_GlobalsFoldInOrder ==
    /\ Len(GlobalHandled) = GlobalCalled
    /\ \A k \in 1..Len(GlobalHandled) : GlobalHandled[k].id = rules[k].hg
    /\ (pc = "globals" /\ ri > 1)
       => /\ call[1].rule = rules[ri - 1]
          /\ call[1].ctx = [matched |-> rules[ri - 1].matched, device |-> Device,
                            opt |-> None]
    /\ pc = "globals" => global_opts = FoldGlobal(rules, ri - 1)
    /\ pc = "done"
       => ret[1].global_options = ToBgpGlobal(FoldGlobal(rules, Len(rules)))
    /\ \A j \in TraceIdx :
           trace[j].op \in ProvisioningOps
           => \A i \in 1..j : trace[i].op # "lookup_global"

C14_Witness ==
    /\ pc = "done"
    /\ Len(rules) = 2
    /\ rules[1].hg = 2
    /\ rules[2].hg = None
    /\ ret[1].global_options.global_opt = 2
    /\ AllProvCalls # << >>

\* the handler call of the last iteration of a direct or indirect loop
PeerCall == call # << >> /\ call[1].op \in {"direct_handler", "indirect_handler"}

\* the argument of that call that belongs to the current device, and the other
DeviceSide(c) == IF c.rule.direct_order THEN c.left ELSE c.right
RemoteSide(c) == IF c.rule.direct_order THEN c.right ELSE c.left

\* C15: every direct and indirect rule's handler is called as
\* handler(left_ctx, right_ctx, session) where the left context carries
\* rule.matched_left and the right one rule.matched_right; with direct_order
\* the current device is bound to the left context and the remote device
\* comes from rule.name_right, otherwise the current device is bound to the
\* right context and the remote device comes from rule.name_left; Pair.local
\* is built from the current device's context and Pair.connected from the
\* remote device's.
C15_HandlerOrientation ==
    PeerCall
    => LET c == call[1]
           r == c.rule
       IN  /\ c.left.matched = r.matched_left
           /\ c.right.matched = r.matched_right
           /\ c.left.opts = r.hl /\ c.right.opts = r.hr /\ c.session = r.hs
           /\ r.direct_order
              => c.left.device = Device /\ c.right.device = r.name_right
           /\ ~r.direct_order
              => c.right.device = Device /\ c.left.device = r.name_left
           /\ c.pair.device = RemoteSide(c).device
           /\ c.pair.local = Merge3(PeerDTO, DeviceSide(c).opts, c.session)
           /\ c.pair.connected = Merge3(PeerDTO, RemoteSide(c).opts, c.session)

C15_Witness ==
    /\ PeerCall
    /\ call[1].op = "indirect_handler"
    /\ ~call[1].rule.direct_order
    /\ call[1].pair.local # call[1].pair.connected
    /\ \E i \in PairIdx : pairs[i].local # pairs[i].connected
    /\ \E k \in 1..Len(result) : result[k].options # result[k].remote_options

\* C16: when a direct rule's handler is called, the ports of the current
\* device's context are the local interface names and the ports of the
\* neighbour's context the remote interface names of
\* search_connections(device, neighbor), in its order, whatever direct_order
\* is; the two lists have the same length and are empty without a connection.
C16_PortsFollowConnections ==
    (PeerCall /\ call[1].op = "direct_handler")
    => LET c == call[1]
           n == c.pair.device
           count == links[LinkOf(n)]
       IN  /\ DeviceSide(c).device = Device
           /\ DeviceSide(c).ports = [k \in 1..count |-> LocalPort(n, k)]
           /\ RemoteSide(c).ports = [k \in 1..count |-> RemotePort(n, k)]
           /\ Len(c.left.ports) = Len(c.right.ports)
           /\ count = 0 => c.left.ports = << >> /\ c.right.ports = << >>

C16_Witness ==
    /\ PeerCall
    /\ call[1].op = "direct_handler"
    /\ ~call[1].rule.direct_order
    /\ Len(call[1].right.ports) = 2
    /\ call[1].right.ports # call[1].left.ports

-----------------------------------------------------------------------------
(* Claims about reconciliation as a whole *)

\* how often _process_neighbor ran for neighbour n
Reconciled(n) ==
    Len(SelectSeq(trace, LAMBDA e : e.op = "process_neighbor" /\ e.nbr = n))

\* how many calls of one operation reconciliation made for neighbour n
Calls(op, n) == Len(SelectSeq(trace, LAMBDA e : e.op = op /\ e.nbr = n))

\* C18 as stated: in one execute_for call reconciliation runs exactly once
\* for each distinct direct neighbour fqdn (calls ended by the indexing of
\* an empty connection list left aside).
C18_ReconciledExactlyOnce ==
    (Ended /\ err # "IndexError")
    => \A i \in PairIdx : Reconciled(pairs[i].device) = 1

\* C18: the pairs of the direct rules have distinct neighbour fqdns;
\* reconciliation runs at most once for each of them no matter how many rules
\* matched it, and exactly once for each when the call gets past the loop
\* over the direct pairs; for each neighbour there is at most one make_lag,
\* one add_svi and one add_subif call, never make_lag with add_svi, never
\* add_svi with add_subif, and no call when lag, svi and subif are absent.
C18_BranchesExclusiveOncePerNeighbor ==
    /\ Distinct([i \in PairIdx |-> pairs[i].device])
    /\ \A n \in Neighbours :
        LET calls == ProvCalls(n)
            made(op) == Len(SelectSeq(calls, LAMBDA e : e.op = op))
        IN  /\ Reconciled(n) <= 1
            /\ made("make_lag") <= 1
            /\ made("add_svi") <= 1
            /\ made("add_subif") <= 1
            /\ ~(made("make_lag") > 0 /\ made("add_svi") > 0)
            /\ ~(made("add_svi") > 0 /\ made("add_subif") > 0)
    /\ pc \in {"indirect", "lookup_global", "globals", "done"}
       => \A i \in PairIdx : Reconciled(pairs[i].device) = 1
    /\ \A i \in PairIdx :
        (pairs[i].local.lag = None /\ pairs[i].local.svi = None
         /\ pairs[i].local.subif = None)
        => ProvCalls(pairs[i].device) = << >>

C18_Witness ==
    /\ pc = "done"
    /\ HandledBy("direct_handler") = <<"B", "B">>
    /\ Reconciled("B") = 1
    /\ Calls("make_lag", "B") = 1
    /\ Calls("add_subif", "B") = 1

\* the interfaces a sequence of provisioning calls creates
CreatedBy(calls) == {Created(calls[k]) : k \in 1..Len(calls)}

\* C19: when reconciliation fails for the k-th direct pair, the handlers of
\* all direct rules have run already, the calls for the pairs before the
\* k-th are applied and stay applied, no call is made for the k-th and later
\* pairs, and no indirect and no global step is made; the call takes no
\* further step.
C19_FailureStopsTheCall ==
    /\ [](\A k \in PairIdx :
            RaisedAt(k)
            => /\ \A j \in PairIdx :
                   IF j < k
                   THEN /\ ProvCalls(pairs[j].device)
                           = Provision(Device, pairs[j].device, pairs[j].local).calls
                        /\ CreatedBy(ProvCalls(pairs[j].device)) \subseteq ifaces[Device]
                   ELSE ProvCalls(pairs[j].device) = << >>
               /\ \A i \in TraceIdx : trace[i].op \notin IndirectOps \cup GlobalOps
               /\ \A i, j \in TraceIdx :
                   (trace[i].op = "process_neighbor" /\ trace[j].op = "direct_handler")
                   => j < i)
    /\ [][/\ pc # "raised"
          /\ (pc = "direct" /\ pc' = "reconcile")
             => Len(HandledBy("direct_handler")) = Len(rules)]_vars

C19_Witness ==
    /\ RaisedAt(2)
    /\ Len(pairs) = 2
    /\ ProvCalls(pairs[1].device) # << >>
    /\ err \in ValidationErrors

-----------------------------------------------------------------------------
(* Claims about calls repeated and calls running together *)

\* C11: with the registry, the storage and the devices fixed, two calls of
\* execute_for(device) started from the same state end alike: the same
\* result (global options, peers in the same order) or the same error, and
\* the same sequence of provisioning calls.
C11_SameCallSameOutcome ==
    (prev # << >> /\ Ended) => OutcomeOf(Running) = prev[1][current]

C11_Witness ==
    /\ prev # << >>
    /\ pc = "done"
    /\ Len(ret[1].peers) = 3
    /\ Len(AllProvCalls) >= 2
    /\ OutcomeOf(Running) = prev[1]["A"]

\* the provisioning calls a step adds to the trace
NewCalls ==
    SelectSeq(SubSeq(trace', Len(trace) + 1, Len(trace')),
              LAMBDA e : e.op \in ProvisioningOps)

\* a step of the running call: no switch to the other call, no second pass
ExecuteStep == current' = current /\ prev' = prev

\* C12: execute_for changes nothing but the interfaces of the device it was
\* called for, and those only by its make_lag, add_subif and add_svi calls:
\* no provisioning call is made on a neighbour or on the target of an
\* indirect rule, the registry and the storage are left as they are, and the
\* interface set of every other device stays the same.
C12_OnlyOwnDeviceProvisioned ==
    /\ [](\A i \in TraceIdx :
            trace[i].op \in ProvisioningOps => trace[i].dev = current)
    /\ [][ExecuteStep
          => /\ links' = links
             /\ registry' = registry
             /\ \A d \in DOMAIN ifaces : d # current => ifaces'[d] = ifaces[d]
             /\ ifaces'[current] = ifaces[current] \cup CreatedBy(NewCalls)]_vars

C12_Witness ==
    /\ pc = "done"
    /\ current = "A"
    /\ Len(ret[1].peers) = 3
    /\ ifaces["A"] # {}
    /\ ifaces["B"] # {}
    /\ ifaces["D"] = {}

====
